---------------------------- MODULE Spec2Model ----------------------------
(***************************************************************************)
(* A model of the Yap parser of tree-sitter-yap.                           *)
(*                                                                         *)
(* The program is the grammar handed to tree-sitter's grammar(): a set of  *)
(* rules written with seq, choice, optional, repeat1, prec.left,           *)
(* prec.right, field and alias, a PRECEDENCE table, the declared conflicts *)
(* and the supertypes.  The parser tree-sitter builds from it is an LR(1)  *)
(* parser whose shift/reduce and reduce/reduce conflicts are settled by    *)
(* the precedence and associativity the rules carry, and which forks       *)
(* (GLR) on the conflicts the grammar declares.                            *)
(*                                                                         *)
(* The rules below are the rules of the grammar, written with the same     *)
(* combinators; the parser is the state machine Shift / Reduce / Accept /  *)
(* Reject over a stack of LR(1) states and syntax trees.                   *)
(***************************************************************************)
EXTENDS Integers, Sequences, FiniteSets, TLC

(***************************************************************************)
(* PRECEDENCE                                                              *)
(***************************************************************************)
multiplicative == 54
\* The additive tier put above the multiplicative one.
additive_raised == multiplicative + 1

additive == 53
concat == 52
relational == 51
logical_and == 42
logical_or == 41
modal_multiple == 32
modal_single == 31
\* The pipeline tier put between the relational and the logical ones.
pipeline_raised == logical_and + 1

pipeline == 22
continuations == 21
syntactic_field == 80
syntactic_injection == 71
syntactic_projection == 70
syntactic_tail == 62
syntactic_unary == 61
syntactic_application == 60
syntactic_arrow == 13
syntactic_tag == 12
syntactic_key == 11
syntactic_domain == 11
syntactic_base == 10

(***************************************************************************)
(* The rule combinators.  A rule denotes the sequence of its alternatives  *)
(* (choice expanded), each alternative a sequence of steps.  A step is a   *)
(* symbol with the precedence and associativity in force where it stands,  *)
(* its field name and its alias.  String tokens are written with their     *)
(* quotes, "'+'", as in the grammar; a bare name is a rule, $.name.        *)
(***************************************************************************)
Step(s) ==
  [sym |-> s, prec |-> 0, assoc |-> "none", set |-> FALSE, pend |-> FALSE,
   field |-> "", alias |-> ""]

sym(s) == << <<Step(s)>> >>

blank == << <<>> >>

RECURSIVE Concat(_)
Concat(ss) == IF ss = <<>> THEN <<>> ELSE Head(ss) \o Concat(Tail(ss))

choice(rules) == Concat(rules)

optional(rule) == rule \o blank

\* A precedence group that is closed before the end of the production hands
\* its last step back to the enclosing precedence.
Closed(alt) ==
  IF alt # <<>> /\ alt[Len(alt)].pend
  THEN [alt EXCEPT ![Len(alt)] =
          [@ EXCEPT !.pend = FALSE, !.set = FALSE, !.prec = 0, !.assoc = "none"]]
  ELSE alt

Seq2(A, B, last) ==
  Concat([i \in 1..Len(A) |->
            [j \in 1..Len(B) |-> A[i] \o (IF last THEN B[j] ELSE Closed(B[j]))]])

RECURSIVE SeqFrom(_, _)
SeqFrom(acc, rules) ==
  IF rules = <<>> THEN acc
  ELSE SeqFrom(Seq2(acc, Head(rules), Len(rules) = 1), Tail(rules))

seq(rules) == SeqFrom(blank, rules)

WithPrec(alt, n, a) ==
  [i \in 1..Len(alt) |->
     LET s == IF alt[i].set THEN alt[i]
              ELSE [alt[i] EXCEPT !.set = TRUE, !.prec = n, !.assoc = a]
     IN  IF i = Len(alt) THEN [s EXCEPT !.pend = TRUE] ELSE s]

prec_left(n, rule) == [i \in 1..Len(rule) |-> WithPrec(rule[i], n, "left")]

prec_right(n, rule) == [i \in 1..Len(rule) |-> WithPrec(rule[i], n, "right")]

field(name, rule) ==
  [i \in 1..Len(rule) |->
     [j \in 1..Len(rule[i]) |->
        IF rule[i][j].field = "" THEN [rule[i][j] EXCEPT !.field = name]
        ELSE rule[i][j]]]

alias(rule, name) ==
  [i \in 1..Len(rule) |->
     [j \in 1..Len(rule[i]) |->
        IF rule[i][j].alias = "" THEN [rule[i][j] EXCEPT !.alias = name]
        ELSE rule[i][j]]]

\* repeat1(x) names the hidden auxiliary rule tree-sitter makes for it; the
\* auxiliary rules are the *_repeat definitions below.
repeat1(aux) == sym(aux)

repeat(aux) == optional(repeat1(aux))

sep1(rule, aux) == seq(<<rule, repeat(aux)>>)

commaSep(rule, aux) == optional(sep1(rule, aux))

parens(rule) == seq(<<sym("'('"), rule, sym("')'")>>)

buildDomain(rule, aux) == sep1(rule, aux)

\* The productions of a rule: its non-empty alternatives.
RECURSIVE Dedup(_, _)
Dedup(done, todo) ==
  IF todo = <<>> THEN done
  ELSE IF \E i \in 1..Len(done) : done[i] = Head(todo)
       THEN Dedup(done, Tail(todo))
       ELSE Dedup(Append(done, Head(todo)), Tail(todo))

Rule(name, rule) ==
  LET alts == SelectSeq(rule, LAMBDA alt : alt # <<>>)
      prods == [i \in 1..Len(alts) |->
                  [lhs |-> name,
                   rhs |-> [j \in 1..Len(alts[i]) |->
                              [sym |-> alts[i][j].sym, prec |-> alts[i][j].prec,
                               assoc |-> alts[i][j].assoc,
                               field |-> alts[i][j].field,
                               alias |-> alts[i][j].alias]]]]
  IN  Dedup(<<>>, prods)

\* The hidden rule of a repetition: one or more of its body.
Aux(name, rule) == Rule(name, choice(<<rule, seq(<<sym(name), rule>>)>>))

(***************************************************************************)
(* The rules of the grammar.                                               *)
(***************************************************************************)
source_file == Rule("source_file", choice(<<sym("module"), sym("script")>>))

module_repeat1 == Aux("module_repeat1", sym("import"))

module ==
  Rule("module", seq(<<sym("exports"), repeat("module_repeat1"), sym("script")>>))

script_repeat1 == Aux("script_repeat1", seq(<<sym("';'"), sym("statement")>>))

script ==
  Rule("script",
       seq(<<sym("statement"), repeat("script_repeat1"), optional(sym("';'"))>>))

exports_repeat1 == Aux("exports_repeat1", seq(<<sym("','"), sym("identifier")>>))

exports ==
  Rule("exports", choice(<<
    seq(<<sym("'export'"), sym("'*'"), sym("';'")>>),
    seq(<<sym("'export'"), sym("'('"), sep1(sym("identifier"), "exports_repeat1"),
          sym("')'"), sym("';'")>>) >>))

\* The import whose first form may leave out the ';'.
import_lenient ==
  Rule("import", choice(<<
    seq(<<sym("'import'"), sym("string"), optional(sym("';'"))>>),
    seq(<<sym("'import'"), sym("string"), sym("'('"),
          sep1(sym("identifier"), "exports_repeat1"), sym("')'"), sym("';'")>>) >>))

import ==
  Rule("import", choice(<<
    seq(<<sym("'import'"), sym("string"), sym("';'")>>),
    seq(<<sym("'import'"), sym("string"), sym("'('"),
          sep1(sym("identifier"), "exports_repeat1"), sym("')'"), sym("';'")>>) >>))

statement ==
  Rule("statement",
       choice(<<sym("letdec"), sym("using"), sym("foreign"), sym("type_expr")>>))

letdec ==
  Rule("letdec", choice(<<
    seq(<<sym("'let'"), field("name", sym("identifier")), sym("'='"),
          field("value", sym("type_expr"))>>),
    seq(<<sym("'let'"), field("name", sym("identifier")), sym("':'"),
          field("type", sym("type_expr")), sym("'='"),
          field("value", sym("type_expr"))>>) >>))

using ==
  Rule("using",
       seq(<<sym("'using'"), sym("expr"),
             optional(seq(<<sym("'as'"), sym("identifier")>>))>>))

foreign ==
  Rule("foreign",
       seq(<<sym("'foreign'"), sym("identifier"), sym("':'"), sym("type_expr")>>))

type_expr ==
  Rule("type_expr",
       choice(<<sym("pi"), sym("arrow"), sym("mu"), sym("variant"), sym("modal"),
                sym("expr")>>))

modal ==
  Rule("modal", choice(<<
    prec_right(modal_multiple,
      seq(<<sym("'<'"), sym("quantity"), sym("'>'"), sym("expr"), sym("'[|'"),
            sym("lambda"), sym("'|]'")>>)),
    prec_right(modal_single,
      seq(<<sym("'<'"), sym("quantity"), sym("'>'"), sym("expr")>>)),
    prec_right(modal_single,
      seq(<<sym("expr"), sym("'[|'"), sym("lambda"), sym("'|]'")>>)) >>))

mu ==
  Rule("mu",
       prec_right(syntactic_arrow,
         seq(<<sym("'mu'"), field("name", sym("identifier")), sym("'->'"),
               field("body", sym("type_expr"))>>)))

expr ==
  Rule("expr",
       choice(<<sym("lambda"), sym("match"), sym("unary"), sym("operation"),
                sym("application"), sym("annotation"), sym("atom")>>))

\* The annotation put below the rules that have no precedence.
annotation_lowered ==
  Rule("annotation",
       prec_right(0 - syntactic_base,
         seq(<<field("expr", sym("expr")), sym("':'"),
               field("type", sym("type_expr"))>>)))

annotation ==
  Rule("annotation",
       prec_right(syntactic_base,
         seq(<<field("expr", sym("expr")), sym("':'"),
               field("type", sym("type_expr"))>>)))

unary ==
  Rule("unary",
       prec_right(syntactic_unary,
         seq(<<field("operator", choice(<<sym("'-'"), sym("'+'")>>)),
               field("operand", sym("expr"))>>)))

application_repeat1 == Aux("application_repeat1", sym("argument"))

application ==
  Rule("application", choice(<<
    prec_right(syntactic_application,
      seq(<<field("function", sym("atom")),
            field("argument", repeat1("application_repeat1"))>>)) >>))

\* The argument with its two tags exchanged.
argument_exchanged ==
  Rule("argument", choice(<<
    field("implicit", sym("atom")),
    seq(<<sym("'@'"), field("explicit", sym("atom"))>>) >>))

argument ==
  Rule("argument", choice(<<
    field("explicit", sym("atom")),
    seq(<<sym("'@'"), field("implicit", sym("atom"))>>) >>))

\* One alternative of operation: left operand, one of the operators, right operand.
BinaryOp(n, operators) ==
  prec_left(n, seq(<<field("left", sym("expr")),
                     field("operator", choice(operators)),
                     field("right", sym("expr"))>>))

operation ==
  Rule("operation", choice(<<
    BinaryOp(multiplicative, <<sym("'*'"), sym("'/'"), sym("'%'")>>),
    BinaryOp(additive, <<sym("'+'"), sym("'-'")>>),
    BinaryOp(concat, <<sym("'<>'"), sym("'++'")>>),
    BinaryOp(relational, <<sym("'=='"), sym("'!='"), sym("'<='"), sym("'>='"),
                           sym("'<'"), sym("'>'")>>),
    BinaryOp(pipeline, <<sym("'|>'"), sym("'<|'")>>),
    BinaryOp(logical_and, <<alias(sym("'&&'"), "and")>>),
    BinaryOp(logical_or, <<alias(sym("'||'"), "or")>>) >>))

atom ==
  Rule("atom",
       choice(<<sym("variable"), sym("hole"), sym("literal"), sym("dict"),
                sym("struct"), sym("tuple"), sym("projection"), sym("injection"),
                sym("row"), sym("list"), sym("tagged"), sym("reset"),
                sym("shift"), sym("resume"), sym("parenthesized"), sym("block")>>))

parenthesized == Rule("parenthesized", parens(sym("type_expr")))

\* The variable that is an identifier only, never a label.
variable_plain == Rule("variable", choice(<<sym("identifier")>>))

variable == Rule("variable", choice(<<sym("identifier"), sym("label")>>))

literal ==
  Rule("literal",
       choice(<<sym("string"), sym("number"), sym("boolean"),
                alias(sym("'Type'"), "TypeOfTypes"), alias(sym("'Unit'"), "Unit"),
                alias(sym("'Row'"), "Row"), alias(sym("'!'"), "Bang")>>))

number ==
  Rule("number", choice(<<
    prec_right(1, seq(<<sym("_digits"), sym("'.'"), sym("_digits")>>)),
    sym("_digits") >>))

boolean == Rule("boolean", choice(<<sym("'true'"), sym("'false'")>>))

pi ==
  Rule("pi", choice(<<
    prec_right(syntactic_arrow,
      seq(<<field("domain", alias(sym("pidomain"), "domain")),
            field("icit", alias(sym("'->'"), "explicit")),
            field("codomain", sym("type_expr"))>>)),
    prec_right(syntactic_arrow,
      seq(<<field("domain", alias(sym("pidomain"), "domain")),
            field("icit", alias(sym("'=>'"), "implicit")),
            field("codomain", sym("type_expr"))>>)) >>))

\* The function type nesting to the left: any type as the domain, an
\* expression as the codomain.
arrow_left ==
  Rule("arrow", choice(<<
    prec_left(syntactic_arrow,
      seq(<<field("domain", alias(sym("type_expr"), "domain")),
            field("icit", alias(sym("'->'"), "explicit")),
            field("codomain", sym("expr"))>>)),
    prec_left(syntactic_arrow,
      seq(<<field("domain", alias(sym("type_expr"), "domain")),
            field("icit", alias(sym("'=>'"), "implicit")),
            field("codomain", sym("expr"))>>)) >>))

arrow ==
  Rule("arrow", choice(<<
    prec_right(syntactic_arrow,
      seq(<<field("domain", alias(sym("arrdomain"), "domain")),
            field("icit", alias(sym("'->'"), "explicit")),
            field("codomain", sym("type_expr"))>>)),
    prec_right(syntactic_arrow,
      seq(<<field("domain", alias(sym("arrdomain"), "domain")),
            field("icit", alias(sym("'=>'"), "implicit")),
            field("codomain", sym("type_expr"))>>)) >>))

pidomain_repeat1 ==
  Aux("pidomain_repeat1", seq(<<sym("','"), field("param", sym("typing"))>>))

pidomain ==
  Rule("pidomain",
       prec_right(syntactic_domain,
         parens(buildDomain(field("param", sym("typing")), "pidomain_repeat1"))))

arrdomain_repeat1 ==
  Aux("arrdomain_repeat1", seq(<<sym("','"), field("param", sym("type_expr"))>>))

arrdomain ==
  Rule("arrdomain", choice(<<
    prec_right(syntactic_domain,
      parens(buildDomain(field("param", sym("type_expr")), "arrdomain_repeat1"))),
    prec_right(syntactic_domain, field("param", sym("expr"))) >>))

lambda ==
  Rule("lambda",
       prec_right(syntactic_base, choice(<<
         seq(<<sym("'\\'"), field("params", sym("params")),
               field("icit", alias(sym("'->'"), "explicit")),
               field("body", sym("type_expr"))>>),
         seq(<<sym("'\\'"), field("params", sym("params")),
               field("icit", alias(sym("'=>'"), "implicit")),
               field("body", sym("type_expr"))>>) >>)))

params_repeat1 == Aux("params_repeat1", sym("param"))

params_repeat2 == Aux("params_repeat2", seq(<<sym("','"), sym("param")>>))

params ==
  Rule("params", choice(<<
    repeat1("params_repeat1"),
    parens(sep1(sym("param"), "params_repeat2")) >>))

param == Rule("param", choice(<<sym("identifier"), parens(sym("typing"))>>))

\* The binding of a dependent domain without its precedence.
typing_unranked ==
  Rule("typing", seq(<<sym("identifier"), sym("':'"), sym("type_expr")>>))

typing ==
  Rule("typing",
       prec_right(syntactic_base,
         seq(<<sym("identifier"), sym("':'"), sym("type_expr")>>)))

\* The optional row tail of row, struct, tuple and list: '|' identifier.
tail(n, rule) == prec_right(n, optional(rule))

row_repeat1 == Aux("row_repeat1", seq(<<sym("','"), sym("key_value")>>))

row ==
  Rule("row",
       seq(<<sym("'['"), field("field", sep1(sym("key_value"), "row_repeat1")),
             tail(syntactic_tail,
                  field("tail", seq(<<sym("'|'"), sym("identifier")>>))),
             sym("']'")>>))

key_value ==
  Rule("key_value",
       prec_right(syntactic_field,
         seq(<<field("key", sym("key")), sym("':'"),
               field("value", sym("type_expr"))>>)))

key ==
  Rule("key",
       prec_right(syntactic_key,
         choice(<<alias(sym("identifier"), "field"),
                  alias(sym("_digits"), "index")>>)))

struct ==
  Rule("struct", choice(<<
    seq(<<sym("'{'"), sym("'}'")>>),
    seq(<<sym("'{'"), field("field", sep1(sym("key_value"), "row_repeat1")),
          tail(syntactic_tail,
               field("tail", seq(<<sym("'|'"), sym("identifier")>>))),
          sym("'}'")>>) >>))

tuple_repeat1 == Aux("tuple_repeat1", seq(<<sym("','"), sym("type_expr")>>))

tuple ==
  Rule("tuple",
       seq(<<sym("'{'"), field("element", sep1(sym("type_expr"), "tuple_repeat1")),
             tail(syntactic_tail,
                  field("tail", seq(<<sym("'|'"), sym("identifier")>>))),
             sym("'}'")>>))

list_repeat1 ==
  Aux("list_repeat1", seq(<<sym("','"), field("element", sym("type_expr"))>>))

list ==
  Rule("list", choice(<<
    seq(<<sym("'['"), sym("']'")>>),
    seq(<<sym("'['"), sep1(field("element", sym("type_expr")), "list_repeat1"),
          tail(syntactic_tail,
               seq(<<sym("'|'"), field("tail", sym("identifier"))>>)),
          sym("']'")>>) >>))

variant_repeat1 ==
  Aux("variant_repeat1", seq(<<sym("'|'"), field("variant", sym("tagged"))>>))

variant ==
  Rule("variant",
       prec_right(syntactic_tag,
         seq(<<sym("'|'"), sep1(field("variant", sym("tagged")), "variant_repeat1")>>)))

tagged ==
  Rule("tagged",
       prec_right(syntactic_tag,
         seq(<<sym("'#'"), field("tag", sym("identifier")),
               field("payload", sym("expr"))>>)))

dict ==
  Rule("dict",
       prec_right(syntactic_base,
         seq(<<sym("'{'"), sym("'['"), field("index", sym("expr")), sym("']'"),
               sym("':'"), field("type", sym("type_expr")), sym("'}'")>>)))

projection ==
  Rule("projection", choice(<<
    prec_left(syntactic_projection,
      seq(<<field("record", sym("atom")), sym("'.'"),
            field("key", sym("identifier"))>>)),
    seq(<<sym("'.'"), field("key", sym("identifier"))>>) >>))

injection_repeat1 ==
  Aux("injection_repeat1", seq(<<sym("','"), field("updates", sym("assignment"))>>))

injection ==
  Rule("injection", choice(<<
    prec_right(syntactic_injection,
      seq(<<sym("'{'"), field("record", sym("expr")), sym("'|'"),
            sep1(field("updates", sym("assignment")), "injection_repeat1"),
            sym("'}'")>>)),
    prec_right(syntactic_injection,
      seq(<<sym("'{'"), sym("'|'"),
            sep1(field("updates", sym("assignment")), "injection_repeat1"),
            sym("'}'")>>)) >>))

assignment ==
  Rule("assignment",
       seq(<<field("key", sym("identifier")), sym("'='"),
             field("value", sym("type_expr"))>>))

block_repeat1 ==
  Aux("block_repeat1", seq(<<field("statement", sym("statement")), sym("';'")>>))

block ==
  Rule("block", choice(<<
    seq(<<sym("'{'"), repeat("block_repeat1"),
          optional(field("return", sym("return_statement"))), sym("'}'")>>),
    seq(<<sym("'{'"), field("return", sym("return_statement")), sym("'}'")>>) >>))

return_statement ==
  Rule("return_statement",
       seq(<<sym("'return'"), field("value", sym("type_expr")), sym("';'")>>))

match_repeat1 == Aux("match_repeat1", field("branch", sym("alternative")))

\* The match that may have no alternative.
match_lenient ==
  Rule("match",
       prec_right(syntactic_base,
         seq(<<sym("'match'"), field("subject", sym("expr")),
               repeat("match_repeat1")>>)))

match ==
  Rule("match",
       prec_right(syntactic_base,
         seq(<<sym("'match'"), field("subject", sym("expr")),
               repeat1("match_repeat1")>>)))

alternative ==
  Rule("alternative",
       prec_right(syntactic_base,
         seq(<<sym("'|'"), field("pattern", sym("pattern")), sym("'->'"),
               field("body", sym("expr"))>>)))

\* The patterns without the two variants that the atoms list too.
pattern_disjoint ==
  Rule("pattern",
       choice(<<sym("pattern_tagged"), sym("pattern_struct"), sym("pattern_tuple"),
                sym("pattern_list"), sym("pattern_row"), sym("wildcard")>>))

pattern ==
  Rule("pattern",
       choice(<<sym("variable"), sym("literal"), sym("pattern_tagged"),
                sym("pattern_struct"), sym("pattern_tuple"), sym("pattern_list"),
                sym("pattern_row"), sym("wildcard")>>))

pattern_tagged ==
  Rule("pattern_tagged",
       prec_right(syntactic_tag,
         seq(<<sym("'#'"), field("tag", sym("identifier")),
               field("payload", sym("pattern"))>>)))

pattern_struct_repeat1 ==
  Aux("pattern_struct_repeat1", seq(<<sym("','"), sym("pattern_key_value")>>))

pattern_struct ==
  Rule("pattern_struct", choice(<<
    seq(<<sym("'{'"),
          optional(field("tail", seq(<<sym("'|'"), sym("identifier")>>))),
          sym("'}'")>>),
    seq(<<sym("'{'"),
          field("field", sep1(sym("pattern_key_value"), "pattern_struct_repeat1")),
          tail(syntactic_base,
               field("tail", seq(<<sym("'|'"), sym("identifier")>>))),
          sym("'}'")>>) >>))

pattern_tuple_repeat1 ==
  Aux("pattern_tuple_repeat1", seq(<<sym("','"), sym("pattern")>>))

pattern_tuple ==
  Rule("pattern_tuple",
       seq(<<sym("'{'"),
             field("element", sep1(sym("pattern"), "pattern_tuple_repeat1")),
             tail(syntactic_base,
                  field("tail", seq(<<sym("'|'"), sym("identifier")>>))),
             sym("'}'")>>))

pattern_list ==
  Rule("pattern_list", choice(<<
    seq(<<sym("'['"), sym("']'")>>),
    seq(<<sym("'['"),
          field("element", sep1(sym("pattern"), "pattern_tuple_repeat1")),
          tail(syntactic_base,
               field("tail", seq(<<sym("'|'"), sym("identifier")>>))),
          sym("']'")>>) >>))

pattern_row ==
  Rule("pattern_row",
       seq(<<sym("'['"),
             field("field",
                   commaSep(sym("pattern_key_value"), "pattern_struct_repeat1")),
             tail(syntactic_base,
                  field("tail", seq(<<sym("'|'"), sym("identifier")>>))),
             sym("']'")>>))

pattern_key_value ==
  Rule("pattern_key_value",
       seq(<<field("key", sym("identifier")), sym("':'"),
             field("pattern", sym("pattern"))>>))

reset ==
  Rule("reset",
       prec_right(continuations, seq(<<sym("'reset'"), field("body", sym("expr"))>>)))

shift ==
  Rule("shift",
       prec_right(continuations, seq(<<sym("'shift'"), field("body", sym("expr"))>>)))

resume ==
  Rule("resume",
       prec_right(continuations, seq(<<sym("'resume'"), field("body", sym("expr"))>>)))

\* The quantity of a modal type widened to any digits.
quantity_digits ==
  Rule("quantity", choice(<<sym("'0'"), sym("'1'"), sym("'*'"), sym("_digits")>>))

quantity == Rule("quantity", choice(<<sym("'0'"), sym("'1'"), sym("'*'")>>))

\* The rules in the order of the grammar, the start rule source_file first.
rules ==
  <<source_file, module, script, exports, import, statement, letdec, using,
    foreign, type_expr, modal, mu, expr, annotation, unary, application,
    argument, operation, atom, parenthesized, variable, literal, number,
    boolean, pi, arrow, pidomain, arrdomain, lambda, params, param, typing,
    row, key_value, key, struct, tuple, list, variant, tagged, dict,
    projection, injection, assignment, block, return_statement, match,
    alternative, pattern, pattern_tagged, pattern_struct, pattern_tuple,
    pattern_list, pattern_row, pattern_key_value, reset, shift, resume,
    quantity,
    module_repeat1, script_repeat1, exports_repeat1, application_repeat1,
    pidomain_repeat1, arrdomain_repeat1, params_repeat1, params_repeat2,
    row_repeat1, tuple_repeat1, list_repeat1, variant_repeat1,
    injection_repeat1, block_repeat1, match_repeat1, pattern_struct_repeat1,
    pattern_tuple_repeat1>>

conflicts == {{"struct", "block"}, {"pattern_list", "pattern_row"}}

supertypes == {"type_expr", "expr", "pattern", "atom", "statement"}

extras == {"comment"}


(***************************************************************************)
(* The grammar as tree-sitter's generator sees it: the productions, with   *)
(* an augmented start production in front, and the tables generated from   *)
(* them: the rules, the productions that start with each symbol, the FIRST *)
(* sets and, for every rule B, the lookaheads with which the productions   *)
(* of each rule C enter the closure of an item whose next symbol is B ("#" *)
(* stands for the lookaheads that follow B in that item).                  *)
(***************************************************************************)
EndOfInput == "$end"

Productions ==
  <<[lhs |-> "$accept", rhs |-> <<[sym |-> "source_file", prec |-> 0,
                                   assoc |-> "none", field |-> "", alias |-> ""]>>]>>
  \o Concat(rules)

NonTerminalsOf(P) == {P[p].lhs : p \in 1..Len(P)}

SymbolsOf(P) ==
  NonTerminalsOf(P) \cup UNION {{P[p].rhs[j].sym : j \in 1..Len(P[p].rhs)} : p \in 1..Len(P)}

StartsOf(P) == [X \in SymbolsOf(P) |-> {p \in 1..Len(P) : P[p].rhs[1].sym = X}]

FirstStep(P, f) ==
  [n \in DOMAIN f |->
     UNION {IF P[p].rhs[1].sym \in DOMAIN f THEN f[P[p].rhs[1].sym]
            ELSE {P[p].rhs[1].sym} : p \in {q \in 1..Len(P) : P[q].lhs = n}}]

RECURSIVE FirstFix(_, _)
FirstFix(P, f) == LET g == FirstStep(P, f) IN IF g = f THEN f ELSE FirstFix(P, g)

CornerStep(P, S, F, f) ==
  [C \in DOMAIN f |->
     f[C] \cup
     UNION {IF f[P[p].lhs] = {} THEN {}
            ELSE IF Len(P[p].rhs) = 1 THEN f[P[p].lhs]
            ELSE IF P[p].rhs[2].sym \in DOMAIN F THEN F[P[p].rhs[2].sym]
            ELSE {P[p].rhs[2].sym} : p \in S[C]}]

RECURSIVE CornerFix(_, _, _, _)
CornerFix(P, S, F, f) ==
  LET g == CornerStep(P, S, F, f) IN IF g = f THEN f ELSE CornerFix(P, S, F, g)

Generate(P) ==
  LET N == NonTerminalsOf(P)
      S == StartsOf(P)
      F == FirstFix(P, [n \in N |-> {}])
  IN  [prods |-> P,
       nonterminals |-> N,
       starts |-> S,
       first |-> F,
       corner |-> [B \in N |->
                     CornerFix(P, S, F, [C \in N |-> IF C = B THEN {"#"} ELSE {}])]]

\* The tables of the generated parser.
Tables == Generate(Productions)

(***************************************************************************)
(* LR(1) states.  A state is the set of its kernel items [p, d, las]:      *)
(* production p with d steps read and lookaheads las.  The grammar has no  *)
(* empty production, so every item that can be reduced is a kernel item.   *)
(* T stands for the tables of the parser.                                  *)
(***************************************************************************)
StartState == {[p |-> 1, d |-> 0, las |-> {EndOfInput}]}

Rhs(T, p) == T.prods[p].rhs

Lhs(T, p) == T.prods[p].lhs

First(T, X) == IF X \in T.nonterminals THEN T.first[X] ELSE {X}

Done(T, i) == i.d = Len(Rhs(T, i.p))

NextSym(T, i) == IF Done(T, i) THEN "" ELSE Rhs(T, i.p)[i.d + 1].sym

\* The lookaheads of what follows the next symbol of item i.
Following(T, i) ==
  IF i.d + 1 < Len(Rhs(T, i.p)) THEN First(T, Rhs(T, i.p)[i.d + 2].sym) ELSE i.las

\* The lookaheads with which the productions of rule C stand in the closure of K.
ClosureLookaheads(T, K, C) ==
  UNION {LET la == T.corner[NextSym(T, i)][C]
         IN  (la \ {"#"}) \cup (IF "#" \in la THEN Following(T, i) ELSE {})
         : i \in {k \in K : NextSym(T, k) \in T.nonterminals}}

Goto(T, K, X) ==
  {[p |-> i.p, d |-> i.d + 1, las |-> i.las] : i \in {k \in K : NextSym(T, k) = X}}
  \cup
  {[p |-> q, d |-> 1, las |-> ClosureLookaheads(T, K, Lhs(T, q))]
     : q \in {r \in T.starts[X] : ClosureLookaheads(T, K, Lhs(T, r)) # {}}}

\* The precedence and associativity of an item are those of the step before the dot.
ItemPrec(T, i) == IF i.d = 0 THEN 0 ELSE Rhs(T, i.p)[i.d].prec

ItemAssoc(T, i) == IF i.d = 0 THEN "none" ELSE Rhs(T, i.p)[i.d].assoc

(***************************************************************************)
(* The parse actions of a state on a lookahead token, after the generator  *)
(* has resolved the conflicts: 0 stands for shift, p > 0 for the reduction *)
(* of production p.  Among reductions the highest precedence wins; between *)
(* a shift and a reduction the precedences decide, then the associativity  *)
(* of the reduction.  What is left undecided is a conflict, which the      *)
(* grammar has to declare and the parser explores on a forked stack.       *)
(***************************************************************************)
Shiftable(T, K, t) == \E i \in K : ~Done(T, i) /\ t \in First(T, NextSym(T, i))

Reducible(T, K, t) == {i \in K : Done(T, i) /\ t \in i.las}

Highest(T, I) == {i \in I : \A j \in I : ItemPrec(T, j) <= ItemPrec(T, i)}

ShiftItems(T, K, t) ==
  {k \in K : ~Done(T, k) /\ k.d > 0 /\ t \in First(T, NextSym(T, k))}

Resolve(T, canShift, reds, shiftPrecs) ==
  IF ~canShift \/ reds = {} THEN [shift |-> canShift, reds |-> reds]
  ELSE LET rprec == ItemPrec(T, CHOOSE r \in reds : TRUE)
           more  == \E n \in shiftPrecs : n > rprec
           less  == \E n \in shiftPrecs : n < rprec
       IN  IF more /\ ~less THEN [shift |-> TRUE, reds |-> {}]
           ELSE IF less /\ ~more THEN [shift |-> FALSE, reds |-> reds]
           ELSE IF more /\ less THEN [shift |-> TRUE, reds |-> reds]
           ELSE IF \A r \in reds : ItemAssoc(T, r) = "left"
                THEN [shift |-> FALSE, reds |-> reds]
           ELSE IF \A r \in reds : ItemAssoc(T, r) = "right"
                THEN [shift |-> TRUE, reds |-> {}]
           ELSE [shift |-> TRUE, reds |-> reds]

Resolved(T, K, t) ==
  Resolve(T, Shiftable(T, K, t), Highest(T, Reducible(T, K, t)),
          {ItemPrec(T, i) : i \in ShiftItems(T, K, t)})

ParseActions(T, K, t) ==
  LET r == Resolved(T, K, t)
  IN  (IF r.shift THEN {0} ELSE {}) \cup {i.p : i \in r.reds}

Auxiliary ==
  {"module_repeat1", "script_repeat1", "exports_repeat1", "application_repeat1",
   "pidomain_repeat1", "arrdomain_repeat1", "params_repeat1", "params_repeat2",
   "row_repeat1", "tuple_repeat1", "list_repeat1", "variant_repeat1",
   "injection_repeat1", "block_repeat1", "match_repeat1",
   "pattern_struct_repeat1", "pattern_tuple_repeat1"}

\* The rule to which the generator attributes the items of rule n in a conflict.
ParentRule(T, n) ==
  IF n \in Auxiliary
  THEN CHOOSE m \in T.nonterminals \ Auxiliary :
         \E q \in 1..Len(T.prods) :
           Lhs(T, q) = m /\ \E j \in 1..Len(Rhs(T, q)) : Rhs(T, q)[j].sym = n
  ELSE n

\* The rules whose items take part in the actions left on token t in state K.
ConflictRules(T, K, t) ==
  LET r == Resolved(T, K, t)
  IN  {ParentRule(T, Lhs(T, i.p)) : i \in r.reds}
      \cup (IF r.shift THEN {ParentRule(T, Lhs(T, i.p)) : i \in ShiftItems(T, K, t)}
            ELSE {})

ValidTokens(T, K) ==
  UNION {IF Done(T, i) THEN i.las ELSE First(T, NextSym(T, i)) : i \in K}

(***************************************************************************)
(* The lexer.  A lexeme is given by its text.  Where two tokens match the  *)
(* same text the lexer returns the first one that the parse state allows:  *)
(* the literals '0' and '1' of quantity before _digits, and a keyword      *)
(* before identifier, the word token of the grammar.                       *)
(***************************************************************************)
Identifiers == {"x", "y"}

Digits == {"0", "1", "2"}

\* A ':' with an identifier right after it, no blank between them.
Labels == {":x", ":y"}

\* A string literal, with its quotes.
Strings == {"\"m\""}

\* The identifier of such a lexeme.
NameOf(l) == IF l = ":x" THEN "x" ELSE "y"

Keywords ==
  {"Row", "Type", "Unit", "as", "export", "false", "foreign", "import", "let",
   "match", "reset", "resume", "return", "shift", "true", "using"}

Quote(l) == "'" \o l \o "'"

Candidates(l) ==
  IF l \in Identifiers THEN <<"identifier">>
  ELSE IF l \in Labels THEN <<"label", Quote(":")>>
  ELSE IF l \in Strings THEN <<"string">>
  ELSE IF l \in Keywords THEN <<Quote(l), "identifier">>
  ELSE IF l \in {"0", "1"} THEN <<Quote(l), "_digits">>
  ELSE IF l \in Digits THEN <<"_digits">>
  ELSE IF l = "?" THEN <<"hole">>
  ELSE IF l = "_" THEN <<"wildcard", "identifier">>
  ELSE <<Quote(l)>>

Lex(l, valid) ==
  LET c == Candidates(l)
      ok == {j \in 1..Len(c) : c[j] \in valid}
  IN  IF ok = {} THEN c[Len(c)]
      ELSE c[CHOOSE j \in ok : \A k \in ok : j <= k]

(***************************************************************************)
(* The parser.  The stack holds, for every symbol read, the LR state       *)
(* reached and the syntax nodes the symbol contributes to the tree.  The   *)
(* input is read one lexeme at a time, lexed in the context of the state   *)
(* on top of the stack.  On a declared conflict the parser forks: every    *)
(* behaviour follows one version of the stack, and a version that cannot   *)
(* go on is dropped (status "rejected").                                   *)
(*                                                                         *)
(* The inputs are all the texts of at most MaxLen lexemes over the         *)
(* alphabet of the run, and the texts of its corpus, which may be longer   *)
(* and may hold other lexemes.                                             *)
(***************************************************************************)
VARIABLES alphabet, corpus, input, pending, token, stack, status

vars == <<alphabet, corpus, input, pending, token, stack, status>>

MaxLen == 4

IsPrefix(s, t) == Len(s) <= Len(t) /\ SubSeq(t, 1, Len(s)) = s

Leaf(t, l) == [kind |-> t, text |-> l, field |-> "", kids |-> <<>>]

Node(k, children) == [kind |-> k, text |-> "", field |-> "", kids |-> children]

\* Supertypes and auxiliary rules have no node of their own.
Hidden(n) == n \in supertypes \cup Auxiliary

Renamed(nodes, a) ==
  IF a = "" THEN nodes
  ELSE [j \in 1..Len(nodes) |-> [nodes[j] EXCEPT !.kind = a]]

IsVisible(n) == n.kind # "_digits"

Labelled(nodes, f) ==
  IF f = "" THEN nodes
  ELSE [j \in 1..Len(nodes) |-> [nodes[j] EXCEPT !.field = f]]

StepNodes(entry, step) ==
  Labelled(SelectSeq(Renamed(entry.nodes, step.alias), IsVisible), step.field)

TopState == stack[Len(stack)].state

Parsing == status = "parsing"

Start(lexemes, texts) ==
  /\ alphabet = lexemes
  /\ corpus = texts
  /\ input = <<>>
  /\ pending = ""
  /\ token = ""
  /\ stack = <<[state |-> StartState, nodes |-> <<>>]>>
  /\ status = "parsing"

\* The text of the token that has been read from the last lexeme.
TokenText ==
  LET l == input[Len(input)]
  IN  IF l \notin Labels \/ token = "label" THEN l
      ELSE IF token = Quote(":") THEN ":"
      ELSE NameOf(l)

\* The lexemes that may come next in a text of the corpus.
Continuations == {t[Len(input) + 1] : t \in {u \in corpus : Len(u) > Len(input)}}

\* Read the next lexeme, or the end of the input.  The lexer matches the
\* longest token that is valid in the state: of a ':' with an identifier right
\* after it, the whole as a label where a label is valid, and otherwise the
\* ':' alone, the identifier being left for the next token.
Advance(T) ==
  /\ Parsing
  /\ token = ""
  /\ \/ /\ pending # ""
        /\ token' = Lex(pending, ValidTokens(T, TopState))
        /\ pending' = ""
        /\ input' = input
     \/ /\ pending = ""
        /\ \E l \in alphabet \cup Continuations :
             /\ \/ l \in alphabet /\ Len(input) < MaxLen
                \/ \E t \in corpus : IsPrefix(Append(input, l), t)
             /\ input' = Append(input, l)
             /\ token' = Lex(l, ValidTokens(T, TopState))
             /\ pending' = IF /\ l \in Labels
                              /\ token' = Quote(":")
                              /\ token' \in ValidTokens(T, TopState)
                           THEN NameOf(l)
                           ELSE ""
     \/ /\ pending = ""
        /\ token' = EndOfInput
        /\ input' = input
        /\ pending' = ""
  /\ UNCHANGED <<alphabet, corpus, stack, status>>

Shift(T) ==
  /\ Parsing
  /\ token \notin {"", EndOfInput}
  /\ 0 \in ParseActions(T, TopState, token)
  /\ stack' = Append(stack, [state |-> Goto(T, TopState, token),
                             nodes |-> <<Leaf(token, TokenText)>>])
  /\ token' = ""
  /\ UNCHANGED <<alphabet, corpus, input, pending, status>>

Reduce(T) ==
  /\ Parsing
  /\ token # ""
  /\ \E p \in ParseActions(T, TopState, token) \ {0, 1} :
       LET n      == Len(Rhs(T, p))
           base   == SubSeq(stack, 1, Len(stack) - n)
           popped == SubSeq(stack, Len(stack) - n + 1, Len(stack))
           kids   == Concat([j \in 1..n |-> StepNodes(popped[j], Rhs(T, p)[j])])
           name   == Lhs(T, p)
       IN  stack' = Append(base,
                      [state |-> Goto(T, base[Len(base)].state, name),
                       nodes |-> IF Hidden(name) THEN kids ELSE <<Node(name, kids)>>])
  /\ UNCHANGED <<alphabet, corpus, input, pending, token, status>>

Accept(T) ==
  /\ Parsing
  /\ token = EndOfInput
  /\ 1 \in ParseActions(T, TopState, token)
  /\ status' = "accepted"
  /\ UNCHANGED <<alphabet, corpus, input, pending, token, stack>>

Reject(T) ==
  /\ Parsing
  /\ token # ""
  /\ ParseActions(T, TopState, token) = {}
  /\ status' = "rejected"
  /\ UNCHANGED <<alphabet, corpus, input, pending, token, stack>>

\* The tables are generated once, before the parser runs.
Next == \E T \in {Tables} : Advance(T) \/ Shift(T) \/ Reduce(T) \/ Accept(T) \/ Reject(T)

Accepted == status = "accepted"

Rejected == status = "rejected"

\* The syntax tree of an accepted input.
Tree == stack[Len(stack)].nodes[1]

(***************************************************************************)
(* The vocabulary of the properties: the trees that the texts are expected *)
(* to have.                                                                *)
(***************************************************************************)
With(f, n) == [n EXCEPT !.field = f]

Variable(l) == Node("variable", <<Leaf("identifier", l)>>)

Number == Node("literal", <<Node("number", <<>>)>>)

AtomOf(l) == IF l \in Identifiers THEN Variable(l) ELSE Number

OperatorLeaf(op) ==
  Leaf(IF op = "&&" THEN "and" ELSE IF op = "||" THEN "or" ELSE Quote(op), op)

Operation(l, op, r) ==
  Node("operation",
       <<With("left", l), With("operator", OperatorLeaf(op)), With("right", r)>>)

\* The first statement of an accepted script.
Statement == Tree.kids[1].kids[1]

Operands == {"x", "2"}

\* The texts a o1 b o2 c with atoms a, b, c and operators o1, o2.
Infix(ops) ==
  {<<a, o1, b, o2, c>> : a \in {"x"}, b \in Operands, c \in Operands,
                         o1 \in ops, o2 \in ops}

LeftNested == Operation(Operation(AtomOf(input[1]), input[2], AtomOf(input[3])),
                        input[4], AtomOf(input[5]))

RightNested == Operation(AtomOf(input[1]), input[2],
                         Operation(AtomOf(input[3]), input[4], AtomOf(input[5])))

\* The parser has stopped in text t: at one of its lexemes or at its end.
Refused(t) ==
  /\ Rejected
  /\ IF token = EndOfInput THEN input = t ELSE IsPrefix(input, t)

(***************************************************************************)
(* Arithmetic and logical operators.                                       *)
(***************************************************************************)
Multiplicative == {"*", "/", "%"}

Additive == {"+", "-"}

ArithmeticTexts == Infix(Multiplicative \cup Additive \cup {"&&", "||"})

InitArithmetic ==
  Start(Operands \cup Multiplicative \cup Additive \cup {"&&", "||"}, ArithmeticTexts)

SpecArithmetic == InitArithmetic /\ [][Next]_vars

\* C1: a + b * c is read as a + (b * c), a * b + c as (a * b) + c and
\* a || b && c as a || (b && c): a multiplicative operator binds tighter than
\* an additive one and && tighter than ||, on whichever side it stands; and
\* none of these texts is rejected.
C1_Precedence ==
  /\ Rejected => \A t \in ArithmeticTexts : ~Refused(t)
  /\ Accepted /\ input \in ArithmeticTexts =>
       /\ input[2] \in Additive /\ input[4] \in Multiplicative => Statement = RightNested
       /\ input[2] \in Multiplicative /\ input[4] \in Additive => Statement = LeftNested
       /\ input[2] = "||" /\ input[4] = "&&" => Statement = RightNested
       /\ input[2] = "&&" /\ input[4] = "||" => Statement = LeftNested

C1_Witness ==
  /\ Accepted
  /\ input = <<"x", "+", "2", "*", "x">>
  /\ Statement = Operation(Variable("x"), "+", Operation(Number, "*", Variable("x")))

(***************************************************************************)
(* Function types and lambdas.                                             *)
(***************************************************************************)
Icit(l) == With("icit", Leaf(IF l = "->" THEN "explicit" ELSE "implicit", l))

Open == Leaf(Quote("("), "(")

Close == Leaf(Quote(")"), ")")

\* A domain that is one type, bare or in parentheses.
Domain(a) == With("domain", Node("domain", <<With("param", a)>>))

Grouped(a) == With("domain", Node("domain", <<Open, With("param", a), Close>>))

Arrow(d, l, c) == Node("arrow", <<d, Icit(l), With("codomain", c)>>)

Param(x) == Node("param", <<Leaf("identifier", x)>>)

Lambda(x, l, b) ==
  Node("lambda", <<Leaf(Quote("\\"), "\\"), With("params", Node("params", <<Param(x)>>)),
                   Icit(l), With("body", b)>>)

Arrows == {"->", "=>"}

\* The texts A l1 B l2 C with atoms A, B, C and arrows l1, l2.
ArrowTexts ==
  {<<a, l1, b, l2, c>> : a \in Operands, b \in Operands, c \in Operands,
                         l1 \in Arrows, l2 \in Arrows}

\* The texts ( A l1 B ) l2 C.
GroupedTexts ==
  {<<"(", a, l1, b, ")", l2, c>> : a \in Operands, b \in Operands, c \in Operands,
                                   l1 \in Arrows, l2 \in Arrows}

\* The texts \ x l1 \ y l2 z.
LambdaTexts ==
  {<<"\\", "x", l1, "\\", "y", l2, z>> : l1 \in Arrows, l2 \in Arrows, z \in {"x", "y"}}

BinderTexts == ArrowTexts \cup GroupedTexts \cup LambdaTexts

InitBinders ==
  Start(Operands \cup Arrows \cup {"y", "\\", "(", ")"}, BinderTexts)

SpecBinders == InitBinders /\ [][Next]_vars

\* C2: A -> B -> C is read as the arrow with domain A and codomain the arrow
\* B -> C; the arrow with domain the arrow A -> B is read only from the text
\* with explicit parentheses ( A -> B ) -> C; \x -> \y -> x is read as the
\* lambda over x whose body is the lambda \y -> x; and none of these texts is
\* rejected.
C2_RightNested ==
  /\ Rejected => \A t \in BinderTexts : ~Refused(t)
  /\ Accepted /\ input \in ArrowTexts =>
       Statement = Arrow(Domain(AtomOf(input[1])), input[2],
                         Arrow(Domain(AtomOf(input[3])), input[4], AtomOf(input[5])))
  /\ Accepted /\ input \in GroupedTexts =>
       Statement = Arrow(Grouped(Arrow(Domain(AtomOf(input[2])), input[3],
                                       AtomOf(input[4]))),
                         input[6], AtomOf(input[7]))
  /\ Accepted /\ input \in LambdaTexts =>
       Statement = Lambda("x", input[3], Lambda("y", input[6], Variable(input[7])))

C2_Witness ==
  /\ Accepted
  /\ input = <<"x", "->", "2", "->", "x">>
  /\ Statement = Arrow(Domain(Variable("x")), "->",
                       Arrow(Domain(Number), "->", Variable("x")))

(***************************************************************************)
(* Dependent and plain function types.                                     *)
(***************************************************************************)
Names == {"x", "y"}

Colon == Leaf(Quote(":"), ":")

Comma == Leaf(Quote(","), ",")

Typing(n, a) == Node("typing", <<Leaf("identifier", n), Colon, a>>)

Annotation(e, a) == Node("annotation", <<With("expr", e), Colon, With("type", a)>>)

\* A function type over the parenthesized parameters ps.
Over(k, ps, l, c) ==
  Node(k, <<With("domain", Node("domain", <<Open>> \o ps \o <<Close>>)), Icit(l),
            With("codomain", c)>>)

\* The texts ( n : A ) l C.
BindingTexts ==
  {<<"(", n, ":", a, ")", l, c>> : n \in Names, a \in Operands, l \in Arrows,
                                   c \in Operands}

\* The texts ( x : A , y : B ) l C.
BindingsTexts ==
  {<<"(", "x", ":", a, ",", "y", ":", b, ")", l, c>> :
     a \in Operands, b \in Operands, l \in Arrows, c \in Names}

\* The texts A l C.
PlainTexts == {<<a, l, c>> : a \in Operands, l \in Arrows, c \in Operands}

\* The texts ( 2 : A ) l C and ( x , y : A ) l C, whose domains are not lists of
\* bindings.
OtherTexts ==
  {<<"(", "2", ":", a, ")", l, c>> : a \in Operands, l \in Arrows, c \in Operands}
  \cup {<<"(", "x", ",", "y", ":", a, ")", l, "x">> : a \in Operands, l \in Arrows}

DomainTexts == BindingTexts \cup BindingsTexts \cup PlainTexts \cup OtherTexts

InitDomains ==
  Start(Operands \cup Arrows \cup {"y", "(", ")", ":", ","}, DomainTexts)

SpecDomains == InitDomains /\ [][Next]_vars

\* The items of a parenthesized domain are those of the text between the
\* parentheses: every second lexeme of a comma-separated list of bindings is ':'.
BindingDomain ==
  /\ Len(input) >= 5
  /\ input[1] = "("
  /\ \E n \in 1..Len(input) :
       /\ input[n] = ")"
       /\ n % 4 = 1
       /\ \A i \in 2..(n - 1) :
            /\ i % 4 = 2 => input[i] \in Names
            /\ i % 4 = 3 => input[i] = ":"
            /\ i % 4 = 0 => input[i] \in Operands
            /\ i % 4 = 1 => input[i] = ","
       /\ Len(input) = n + 2
       /\ input[n + 1] \in Arrows

\* C3: ( n : A ) -> C and ( x : A , y : B ) -> C are read as a pi whose domain
\* holds the bindings with their names, A -> C as an arrow whose domain is the
\* type A alone, none of these texts is rejected, and no accepted text whose
\* domain is a parenthesized list of bindings is read as an arrow.
C3_DomainSelectsVariant ==
  /\ Rejected =>
       \A t \in BindingTexts \cup BindingsTexts \cup PlainTexts : ~Refused(t)
  /\ Accepted /\ input \in BindingTexts =>
       Statement = Over("pi", <<With("param", Typing(input[2], AtomOf(input[4])))>>,
                        input[6], AtomOf(input[7]))
  /\ Accepted /\ input \in BindingsTexts =>
       Statement = Over("pi", <<With("param", Typing("x", AtomOf(input[4]))), Comma,
                                With("param", Typing("y", AtomOf(input[8])))>>,
                        input[10], AtomOf(input[11]))
  /\ Accepted /\ input \in PlainTexts =>
       Statement = Arrow(Domain(AtomOf(input[1])), input[2], AtomOf(input[3]))
  /\ Accepted /\ BindingDomain => Statement.kind = "pi"

C3_Witness ==
  /\ Accepted
  /\ input = <<"(", "x", ":", "2", ")", "->", "x">>
  /\ Statement = Over("pi", <<With("param", Typing("x", Number))>>, "->", Variable("x"))

(***************************************************************************)
(* Braces: structs, tuples and blocks.                                     *)
(***************************************************************************)
Semi == Leaf(Quote(";"), ";")

KeyValue(k, a) ==
  Node("key_value",
       <<With("key", Node("key", <<Leaf(IF k \in Digits THEN "index" ELSE "field", k)>>)),
         Colon, With("value", a)>>)

Return(a) == Node("return_statement", <<Leaf(Quote("return"), "return"), With("value", a), Semi>>)

Braced(k, items) == Node(k, <<Leaf(Quote("{"), "{")>> \o items \o <<Leaf(Quote("}"), "}")>>)

\* The texts { x : A } and { x : A , y : B }.
StructTexts ==
  {<<"{", "x", ":", a, "}">> : a \in Operands}
  \cup {<<"{", "x", ":", a, ",", "y", ":", b, "}">> : a \in Operands, b \in Operands}

\* The texts { A , B } and { A , B , C }.
TupleTexts ==
  {<<"{", a, ",", b, "}">> : a \in Operands, b \in Operands}
  \cup {<<"{", a, ",", b, ",", c, "}">> : a \in Operands, b \in Operands, c \in Operands}

\* The statements A and x : A.
Statements == {<<a>> : a \in Operands} \cup {<<"x", ":", a>> : a \in Operands}

StatementOf(s) ==
  IF Len(s) = 1 THEN AtomOf(s[1]) ELSE Annotation(Variable(s[1]), AtomOf(s[3]))

\* The texts { S ; }, { S ; return A ; } and { return A ; }.
BlockTexts ==
  {<<"{">> \o s \o <<";", "}">> : s \in Statements}
  \cup {<<"{">> \o s \o <<";", "return", a, ";", "}">> : s \in Statements, a \in Operands}
  \cup {<<"{", "return", a, ";", "}">> : a \in Operands}

BraceTexts == StructTexts \cup TupleTexts \cup BlockTexts

InitBraces ==
  Start(Operands \cup {"y", "{", "}", ":", ",", ";", "return"}, BraceTexts)

SpecBraces == InitBraces /\ [][Next]_vars

\* The block that a text of BlockTexts spells.
BlockOf(t) ==
  LET n    == Len(t)
      ret  == t[n - 3] = "return"
      body == SubSeq(t, 2, IF ret THEN n - 5 ELSE n - 2)
  IN  Braced("block",
             (IF body = <<>> THEN <<>> ELSE <<With("statement", StatementOf(body)), Semi>>)
             \o (IF ret THEN <<With("return", Return(AtomOf(t[n - 2])))>> ELSE <<>>))

\* C4: { x : A , y : B } is read as the struct with the fields x and y in that
\* order, { A , B , C } as the tuple of A, B and C, and braces that hold
\* statements ended by ';' or a return clause as the block of those
\* statements; none of these texts is rejected.
C4_BraceClassification ==
  /\ Rejected => \A t \in BraceTexts : ~Refused(t)
  /\ Accepted /\ input \in StructTexts =>
       Statement = Braced("struct",
                     <<With("field", KeyValue("x", AtomOf(input[4])))>>
                     \o (IF Len(input) = 5 THEN <<>>
                         ELSE <<With("field", Comma),
                                With("field", KeyValue("y", AtomOf(input[8])))>>))
  /\ Accepted /\ input \in TupleTexts =>
       Statement = Braced("tuple",
                     <<With("element", AtomOf(input[2])), With("element", Comma),
                       With("element", AtomOf(input[4]))>>
                     \o (IF Len(input) = 5 THEN <<>>
                         ELSE <<With("element", Comma), With("element", AtomOf(input[6]))>>))
  /\ Accepted /\ input \in BlockTexts => Statement = BlockOf(input)

\* The block { x : 2 ; } is given up at its ';'.
C4_Witness ==
  /\ Refused(<<"{", "x", ":", "2", ";", "}">>)
  /\ input = <<"{", "x", ":", "2", ";">>

\* What the parser does with braces: the struct and tuple texts are read as
\* C4 says, and so are the blocks whose statement is not an annotation of an
\* identifier; a block that begins with x : A is given up at the first ';'.
BracesAsBuilt ==
  /\ Rejected =>
       \A t \in BraceTexts : Refused(t) => t \in BlockTexts /\ t[3] = ":" /\ Len(input) = 5
  /\ Accepted /\ input \in BraceTexts =>
       /\ C4_BraceClassification
       /\ input \in BlockTexts => input[3] # ":"

(***************************************************************************)
(* Brackets: rows and lists.                                               *)
(***************************************************************************)
Bracketed(k, items) == Node(k, <<Leaf(Quote("["), "[")>> \o items \o <<Leaf(Quote("]"), "]")>>)

\* The texts [ k : A ] and [ k : A , y : B ], the key k an identifier or digits.
RowTexts ==
  {<<"[", k, ":", a, "]">> : k \in Operands, a \in Operands}
  \cup {<<"[", k, ":", a, ",", "y", ":", b, "]">> :
          k \in Operands, a \in Operands, b \in Operands}

\* The texts [ A , B ] and [ A , B , C ].
ListTexts ==
  {<<"[", a, ",", b, "]">> : a \in Operands, b \in Operands}
  \cup {<<"[", a, ",", b, ",", c, "]">> : a \in Operands, b \in Operands, c \in Operands}

\* The texts [ k : A , B ], the pair first.
PairFirstTexts ==
  {<<"[", k, ":", a, ",", b, "]">> : k \in Operands, a \in Operands, b \in Operands}

\* The texts [ B , k : A ], the pair last.
PairLastTexts ==
  {<<"[", b, ",", k, ":", a, "]">> : k \in Operands, a \in Operands, b \in Operands}

MixedTexts == PairFirstTexts \cup PairLastTexts

BracketTexts == RowTexts \cup ListTexts \cup MixedTexts

InitBrackets == Start(Operands \cup {"y", "[", "]", ":", ","}, BracketTexts)

SpecBrackets == InitBrackets /\ [][Next]_vars

RowsAndLists ==
  /\ Rejected => \A t \in RowTexts \cup ListTexts : ~Refused(t)
  /\ Accepted /\ input \in RowTexts =>
       Statement = Bracketed("row",
                     <<With("field", KeyValue(input[2], AtomOf(input[4])))>>
                     \o (IF Len(input) = 5 THEN <<>>
                         ELSE <<With("field", Comma),
                                With("field", KeyValue("y", AtomOf(input[8])))>>))
  /\ Accepted /\ input \in ListTexts =>
       Statement = Bracketed("list",
                     <<With("element", AtomOf(input[2])), Comma,
                       With("element", AtomOf(input[4]))>>
                     \o (IF Len(input) = 5 THEN <<>>
                         ELSE <<Comma, With("element", AtomOf(input[6]))>>))

\* C5: [ k : A , y : B ] is read as the row of its pairs, [ A , B , C ] as the
\* list of its elements, neither is rejected, and a bracket that holds both a
\* pair k : A and a bare item is not accepted.
C5_RowOrList ==
  /\ RowsAndLists
  /\ input \in MixedTexts => ~Accepted

\* [ 2 , x : 2 ] is accepted, as the list of 2 and of the annotation x : 2.
C5_Witness ==
  /\ Accepted
  /\ input = <<"[", "2", ",", "x", ":", "2", "]">>
  /\ Statement = Bracketed("list",
                    <<With("element", Number), Comma,
                      With("element", Annotation(Variable("x"), Number))>>)

\* What the parser does with brackets: rows and lists are read as C5 says and
\* a pair followed by a bare item is rejected, but a bare item followed by a
\* pair is accepted as a list whose last element is an annotation.
BracketsAsBuilt ==
  /\ RowsAndLists
  /\ input \in PairFirstTexts => ~Accepted
  /\ token = EndOfInput /\ input \in PairLastTexts => ~Rejected
  /\ Accepted /\ input \in PairLastTexts =>
       Statement = Bracketed("list",
                     <<With("element", AtomOf(input[2])), Comma,
                       With("element", Annotation(AtomOf(input[4]), AtomOf(input[6])))>>)

(***************************************************************************)
(* Modal types.                                                            *)
(***************************************************************************)
Quantities == {"0", "1", "*"}

ModalAlphabet == Quantities \cup {"<", ">", "2", "x", "+"}

Modal(q, a) ==
  Node("modal", <<Leaf(Quote("<"), "<"), Node("quantity", <<Leaf(Quote(q), q)>>),
                  Leaf(Quote(">"), ">"), a>>)

\* The texts < q > T with any lexeme q as the quantity and an atom T.
ModalTexts == {<<"<", q, ">", a>> : q \in ModalAlphabet, a \in {"x", "2", "0"}}

InitModal == Start(ModalAlphabet, ModalTexts)

SpecModal == InitModal /\ [][Next]_vars

\* C6: < 0 > T, < 1 > T and < * > T are read as modal types with that
\* quantity and are not rejected; < q > T with any other lexeme q is not
\* accepted, and no accepted text begins with '<' and another lexeme.
C6_QuantityRange ==
  /\ Rejected => \A t \in ModalTexts : t[2] \in Quantities => ~Refused(t)
  /\ Accepted /\ input \in ModalTexts =>
       /\ input[2] \in Quantities
       /\ Statement = Modal(input[2], AtomOf(input[4]))
  /\ Accepted /\ input[1] = "<" => input[2] \in Quantities

C6_Witness ==
  /\ Accepted
  /\ input = <<"<", "1", ">", "x">>
  /\ Statement = Modal("1", Variable("x"))

\* < 2 > T is given up at the 2.
C6_Refusal ==
  /\ Rejected
  /\ input = <<"<", "2">>
  /\ token = "_digits"

(***************************************************************************)
(* The tiers of the binary operators.                                      *)
(***************************************************************************)
TierOperators == {"*", "+", "++", "==", "|>", "<|", "&&", "||"}

TierTexts == Infix(TierOperators)

InitTiers == Start(Operands \cup TierOperators, TierTexts)

SpecTiers == InitTiers /\ [][Next]_vars

\* The place of an operator in a list of tiers, the tightest tier first.
TierIn(order, op) == CHOOSE i \in 1..Len(order) : op \in order[i]

\* An accepted a o1 b o2 c is grouped around the operator of the tighter tier,
\* and none of the texts is rejected.
GroupedBy(order) ==
  /\ Rejected => \A t \in TierTexts : ~Refused(t)
  /\ Accepted /\ input \in TierTexts =>
       /\ TierIn(order, input[2]) < TierIn(order, input[4]) => Statement = LeftNested
       /\ TierIn(order, input[4]) < TierIn(order, input[2]) => Statement = RightNested

\* C7, as the grammar has it: the tiers are ordered multiplicative > additive >
\* concat > relational > logical-and > logical-or > pipeline, so && and ||
\* bind tighter than |> and <|: a |> b && c is read as a |> (b && c) and
\* a && b |> c as (a && b) |> c.
C7_TierOrder ==
  GroupedBy(<<{"*"}, {"+"}, {"++"}, {"=="}, {"&&"}, {"||"}, {"|>", "<|"}>>)

C7_Witness ==
  /\ Accepted
  /\ input = <<"x", "|>", "2", "&&", "x">>
  /\ Statement = Operation(Variable("x"), "|>", Operation(Number, "&&", Variable("x")))

\* C7, as stated: the tiers are ordered multiplicative > additive > concat >
\* relational > pipeline > logical-and > logical-or, so a |> b && c is read as
\* (a |> b) && c and a && b |> c as a && (b |> c).
C7_PipelineAboveLogical ==
  GroupedBy(<<{"*"}, {"+"}, {"++"}, {"=="}, {"|>", "<|"}, {"&&"}, {"||"}>>)

(***************************************************************************)
(* Annotations.                                                            *)
(***************************************************************************)
Parenthesized(n) == Node("parenthesized", <<Open, n, Close>>)

\* The texts a op b : T.
AnnotatedOperationTexts ==
  {<<"x", op, b, ":", t>> : op \in TierOperators, b \in Operands, t \in Operands}

\* The texts a : b : c.
AnnotationChainTexts ==
  {<<a, ":", b, ":", c>> : a \in Operands, b \in Operands, c \in Operands}

\* The texts \ x -> a : T.
AnnotatedLambdaTexts ==
  {<<"\\", "x", "->", a, ":", t>> : a \in Operands, t \in Operands}

\* The texts ( \ x -> a ) : T.
AnnotatedGroupTexts ==
  {<<"(", "\\", "x", "->", a, ")", ":", t>> : a \in Operands, t \in Operands}

AnnotationTexts ==
  AnnotatedOperationTexts \cup AnnotationChainTexts \cup AnnotatedLambdaTexts
    \cup AnnotatedGroupTexts

InitAnnotations ==
  Start(Operands \cup TierOperators \cup {":", "\\", "->", "(", ")"}, AnnotationTexts)

SpecAnnotations == InitAnnotations /\ [][Next]_vars

\* a op b : T is the annotation of the operation, a : b : c is a : (b : c),
\* and none of the texts is rejected.
AnnotationBelowOperators ==
  /\ Rejected => \A t \in AnnotationTexts : ~Refused(t)
  /\ Accepted /\ input \in AnnotatedOperationTexts =>
       Statement = Annotation(Operation(Variable("x"), input[2], AtomOf(input[3])),
                              AtomOf(input[5]))
  /\ Accepted /\ input \in AnnotationChainTexts =>
       Statement = Annotation(AtomOf(input[1]),
                              Annotation(AtomOf(input[3]), AtomOf(input[5])))

MaxArgs == 3

\* An argument as it is written: an atom, or '@' and an atom.
ArgumentForms == {<<a>> : a \in {"y", "2"}} \cup {<<"@", a>> : a \in {"y", "2"}}

RECURSIVE Chains(_)
\* The texts of n arguments.
Chains(n) ==
  IF n = 0 THEN {<<>>} ELSE {c \o f : c \in Chains(n - 1), f \in ArgumentForms}

\* The texts x a1 ... an, 1 <= n <= MaxArgs.
ApplicationTexts == {<<"x">> \o c : c \in UNION {Chains(n) : n \in 1..MaxArgs}}

InitApplications == Start({"x", "y", "2", "@"}, ApplicationTexts)

SpecApplications == InitApplications /\ [][Next]_vars

Explicit(a) == Node("argument", <<With("explicit", a)>>)

Implicit(a) == Node("argument", <<Leaf(Quote("@"), "@"), With("implicit", a)>>)

RECURSIVE ArgumentsOf(_)
\* The arguments that a text a1 ... an spells, in its order.
ArgumentsOf(t) ==
  IF t = <<>> THEN <<>>
  ELSE IF Head(t) = "@"
       THEN <<With("argument", Implicit(AtomOf(t[2])))>> \o ArgumentsOf(SubSeq(t, 3, Len(t)))
       ELSE <<With("argument", Explicit(AtomOf(t[1])))>> \o ArgumentsOf(Tail(t))

Application(f, as) == Node("application", <<With("function", f)>> \o as)

\* C9: x a1 ... an, each ai an atom or '@' and an atom, is read as one
\* application whose function is x and whose arguments are a1 .. an in the
\* order of the text, each an atom and none an application, tagged implicit
\* when it was written with '@' and explicit otherwise; and none of these
\* texts is rejected, however the two kinds of argument are mixed.
C9_ApplicationChain ==
  /\ Rejected => \A t \in ApplicationTexts : ~Refused(t)
  /\ Accepted /\ input \in ApplicationTexts =>
       Statement = Application(Variable("x"), ArgumentsOf(Tail(input)))

C9_Witness ==
  /\ Accepted
  /\ input = <<"x", "@", "y", "2">>
  /\ Statement = Application(Variable("x"),
                    <<With("argument", Implicit(Variable("y"))),
                      With("argument", Explicit(Number))>>)

(***************************************************************************)
(* Dictionaries.                                                           *)
(***************************************************************************)
\* The indices a, x a and k : a.
IndexTexts ==
  {<<a>> : a \in Operands} \cup {<<"x", a>> : a \in Operands}
    \cup {<<k, ":", a>> : k \in Operands, a \in Operands}

IndexOf(e) ==
  IF Len(e) = 1 THEN AtomOf(e[1])
  ELSE IF Len(e) = 2
       THEN Application(Variable("x"), <<With("argument", Explicit(AtomOf(e[2])))>>)
       ELSE Annotation(AtomOf(e[1]), AtomOf(e[3]))

\* The texts { [ E ] : T }.
DictTexts == {<<"{", "[">> \o e \o <<"]", ":", t, "}">> : e \in IndexTexts, t \in Operands}

InitDicts == Start(Operands \cup {"{", "}", "[", "]", ":"}, DictTexts)

SpecDicts == InitDicts /\ [][Next]_vars

Dict(i, t) ==
  Braced("dict", <<Leaf(Quote("["), "["), With("index", i), Leaf(Quote("]"), "]"), Colon,
                   With("type", t)>>)

\* The index that a text of DictTexts spells.
Index(t) == SubSeq(t, 3, Len(t) - 4)

\* C10: { [ E ] : T } is read as the dict with the index E and the type T,
\* whatever the expression E, and is not rejected.
C10_DictByBracket ==
  /\ Rejected => \A t \in DictTexts : ~Refused(t)
  /\ Accepted /\ input \in DictTexts =>
       Statement = Dict(IndexOf(Index(input)), AtomOf(input[Len(input) - 1]))

\* { [ x : 2 ] : x } is accepted, as the tuple of the row [ x : 2 ] annotated
\* with x.
C10_Witness ==
  /\ Accepted
  /\ input = <<"{", "[", "x", ":", "2", "]", ":", "x", "}">>
  /\ Statement = Braced("tuple",
                    <<With("element",
                           Annotation(Bracketed("row", <<With("field", KeyValue("x", Number))>>),
                                      Variable("x")))>>)

\* What the parser does with { [ E ] : T }: it is the dict of E and T unless E
\* is an annotation k : A of an identifier or of digits, and then it is the
\* tuple of the row [ k : A ] annotated with T; it is never rejected.
DictsAsBuilt ==
  /\ Rejected => \A t \in DictTexts : ~Refused(t)
  /\ Accepted /\ input \in DictTexts =>
       Statement =
         IF Len(Index(input)) < 3
         THEN Dict(IndexOf(Index(input)), AtomOf(input[Len(input) - 1]))
         ELSE Braced("tuple",
                <<With("element",
                       Annotation(Bracketed("row",
                                    <<With("field", KeyValue(input[3], AtomOf(input[5])))>>),
                                  AtomOf(input[8])))>>)

(***************************************************************************)
(* The empty braces.                                                       *)
(***************************************************************************)
EmptyBraces == <<"{", "}">>

EmptyStructRead ==
  /\ Accepted
  /\ input = EmptyBraces
  /\ Statement = Braced("struct", <<>>)

\* Both readings of { } come from one conflict: at the end of { } the
\* reductions to struct and to block are both kept, as the declared conflict
\* [struct, block] allows, and they are the only readings.
EmptyBracesAsBuilt ==
  /\ ~Refused(EmptyBraces)
  /\ Accepted /\ input = EmptyBraces =>
       Statement \in {Braced("struct", <<>>), Braced("block", <<>>)}

(***************************************************************************)
(* Labels.                                                                 *)
(***************************************************************************)
LabelOf(l) == Node("variable", <<Leaf("label", l)>>)

Equals == Leaf(Quote("="), "=")

Let == Leaf(Quote("let"), "let")

\* let x : y = 2, with or without a blank after the ':'.
TypedLet ==
  Node("letdec", <<Let, With("name", Leaf("identifier", "x")), Colon,
                   With("type", Variable("y")), Equals, With("value", Number)>>)

LabelTexts ==
  {<<":y">>, <<"x", ":y">>, <<"x", ":", "y">>, <<"let", "x", "=", ":y">>,
   <<"let", "x", ":y", "=", "2">>, <<"let", "x", ":", "y", "=", "2">>}

InitLabels == Start({"x", "y", ":y", ":", "let", "=", "2"}, LabelTexts)

SpecLabels == InitLabels /\ [][Next]_vars

\* The token in hand has been read from the last lexeme of the input.
Lexed == token \notin {"", EndOfInput}

\* A label is made only of a ':' and an identifier with no blank between
\* them; x : y is the annotation of x, x :y the application of x to the label
\* :y, :y alone the label; and none of the texts is rejected.
LabelsNeedAdjacency ==
  /\ Lexed /\ token = "label" => input[Len(input)] \in Labels
  /\ Rejected => \A t \in LabelTexts : ~Refused(t)
  /\ Accepted /\ input = <<":y">> => Statement = LabelOf(":y")
  /\ Accepted /\ input = <<"x", ":y">> =>
       Statement = Application(Variable("x"),
                               <<With("argument", Explicit(LabelOf(":y")))>>)
  /\ Accepted /\ input = <<"x", ":", "y">> =>
       Statement = Annotation(Variable("x"), Variable("y"))

\* C12, as the grammar has it: a ':' with an identifier right after it is
\* one label token wherever a label can stand, also where the punctuation
\* ':' could stand too; where no label can stand but the punctuation can,
\* which is after let and the name, it is read as the punctuation ':' and
\* the identifier, so that let x :y = 2 is the let of x with the type y.  A
\* label is never made of a ':' and an identifier that a blank separates.
C12_LabelWhereValid ==
  /\ LabelsNeedAdjacency
  /\ pending # "" =>
       /\ Len(input) >= 3
       /\ input[Len(input) - 2] = "let"
       /\ input[Len(input) - 1] \in Identifiers \cup Keywords
  /\ Accepted /\ input \in {<<"let", "x", ":y", "=", "2">>, <<"let", "x", ":", "y", "=", "2">>} =>
       Statement = TypedLet

C12_Witness ==
  /\ Accepted
  /\ input = <<"let", "x", ":y", "=", "2">>
  /\ Statement = TypedLet

\* C12, as stated: a ':' with an identifier right after it is always one
\* label token, never the punctuation ':' and an identifier; and a label is
\* never made of a ':' and an identifier that a blank separates.
C12_AlwaysOneLabel ==
  /\ LabelsNeedAdjacency
  /\ pending = ""
  /\ Lexed /\ input[Len(input)] \in Labels => token = "label"

(***************************************************************************)
(* Keywords and identifiers.                                               *)
(***************************************************************************)
\* The texts let w = 2, \ w -> x and # w x: the word w stands where only an
\* identifier can.
NameTexts(words) ==
  {<<"let", w, "=", "2">> : w \in words} \cup {<<"\\", w, "->", "x">> : w \in words}
    \cup {<<"#", w, "x">> : w \in words}

\* The texts { w : 2 } and w: the word w as a field key and as a variable.
KeyTexts(words) == {<<"{", w, ":", "2", "}">> : w \in words} \cup {<<w>> : w \in words}

WordTexts(words) == NameTexts(words) \cup KeyTexts(words)

InitWords ==
  Start({"let", "x", "=", "\\", "->", "#", "{", "}", ":"},
        WordTexts(Keywords \cup Identifiers))

SpecWords == InitWords /\ [][Next]_vars

Tagged(w, a) ==
  Node("tagged", <<Leaf(Quote("#"), "#"), With("tag", Leaf("identifier", w)),
                   With("payload", a)>>)

\* The tree of a text of NameTexts or KeyTexts whose word is an identifier.
Named(t) ==
  IF t[1] = "let"
  THEN Node("letdec", <<Let, With("name", Leaf("identifier", t[2])), Equals,
                        With("value", Number)>>)
  ELSE IF t[1] = "\\" THEN Lambda(t[2], "->", Variable("x"))
  ELSE IF t[1] = "#" THEN Tagged(t[2], Variable("x"))
  ELSE IF t[1] = "{" THEN Braced("struct", <<With("field", KeyValue(t[2], Number))>>)
  ELSE Variable(t[1])

\* A word that is not a keyword is read as an identifier in all five places.
IdentifiersAccepted ==
  /\ Rejected => \A t \in WordTexts(Identifiers) : ~Refused(t)
  /\ Accepted /\ input \in WordTexts(Identifiers) => Statement = Named(input)

\* C13: a keyword is not accepted where an identifier is expected (the name
\* of a let, a parameter, a tag, a field key, a variable), and every other
\* word is accepted there as an identifier.
C13_KeywordsReserved ==
  /\ IdentifiersAccepted
  /\ Accepted /\ input \in WordTexts(Keywords) => Statement # Named(input)

\* let let = 2 is accepted: the second let is the name, an identifier.
C13_Witness ==
  /\ Accepted
  /\ input = <<"let", "let", "=", "2">>
  /\ Statement = Named(input)

\* What the lexer does with keywords: a word of the keyword set is the keyword
\* only where that keyword can stand, and an identifier elsewhere; after let,
\* after '\' and after '#' no keyword can stand, so every keyword is accepted
\* there as the name, the parameter or the tag.
WordsAsBuilt ==
  /\ IdentifiersAccepted
  /\ Rejected => \A t \in NameTexts(Keywords) : ~Refused(t)
  /\ Accepted /\ input \in NameTexts(Keywords) => Statement = Named(input)

(***************************************************************************)
(* Imports.                                                                *)
(***************************************************************************)
Path == "\"m\""

\* The module export * ; <imports> x.
ModuleText(imports) == <<"export", "*", ";">> \o imports \o <<"x">>

PlainImport == <<"import", Path, ";">>

OpenImport == <<"import", Path>>

ListImports ==
  {<<"import", Path, "(", "x", ")", ";">>, <<"import", Path, "(", "x", ",", "y", ")", ";">>}

OpenListImport == <<"import", Path, "(", "x", ")">>

EmptyListImport == <<"import", Path, "(", ")", ";">>

ImportTexts ==
  {ModuleText(i) : i \in {PlainImport, OpenImport, OpenListImport, EmptyListImport}
                          \cup ListImports}

InitImports ==
  Start({"export", "*", ";", "import", Path, "(", ")", "x", "y", ","}, ImportTexts)

SpecImports == InitImports /\ [][Next]_vars

\* The import node that the lexemes of an import spell.
ImportOf(i) ==
  Node("import",
       [j \in 1..Len(i) |->
          IF i[j] = Path THEN Leaf("string", Path)
          ELSE IF i[j] \in Identifiers THEN Leaf("identifier", i[j])
          ELSE Leaf(Quote(i[j]), i[j])])

\* The first node after the exports of an accepted module.
FirstImport == Tree.kids[1].kids[2]

\* The import with a list of one or more identifiers and a ';' is accepted,
\* and the import with an empty list is not.
ListImportsRead ==
  /\ Rejected => \A i \in ListImports : ~Refused(ModuleText(i))
  /\ \A i \in ListImports :
       Accepted /\ input = ModuleText(i) => FirstImport = ImportOf(i)
  /\ Accepted => input # ModuleText(EmptyListImport)

\* C14, as the grammar has it: the two forms of an import are
\* import "path" ; and import "path" ( id1 , ... , idn ) ; with n >= 1, and
\* the ';' is required in both: import "m" without it is not accepted, nor is
\* an import with an empty list.
C14_ImportForms ==
  /\ ListImportsRead
  /\ ~Refused(ModuleText(PlainImport))
  /\ Accepted /\ input = ModuleText(PlainImport) => FirstImport = ImportOf(PlainImport)
  /\ Accepted => input \notin {ModuleText(OpenImport), ModuleText(OpenListImport)}

\* import "m" without ';' is given up at the lexeme that follows it.
C14_Witness ==
  /\ Refused(ModuleText(OpenImport))
  /\ input = ModuleText(OpenImport)
  /\ token = "identifier"

\* C14, as stated: import "path" is accepted with and without the ';', the
\* import with a list needs the ';', and an empty list is rejected.
C14_OptionalSemicolon ==
  /\ ListImportsRead
  /\ ~Refused(ModuleText(PlainImport))
  /\ ~Refused(ModuleText(OpenImport))
  /\ Accepted => input # ModuleText(OpenListImport)

(***************************************************************************)
(* Matches.                                                                *)
(***************************************************************************)
MaxArms == 3

\* An alternative | p -> b over the operands.
Arms == {<<"|", p, "->", b>> : p \in Operands, b \in Operands}

ArmLists == UNION {[1..n -> Arms] : n \in 0..MaxArms}

RECURSIVE Flatten(_)
Flatten(ls) == IF ls = <<>> THEN <<>> ELSE Head(ls) \o Flatten(Tail(ls))

\* The match of x with the alternatives as, in this order.
MatchText(as) == <<"match", "x">> \o Flatten(as)

MatchTexts == {MatchText(as) : as \in ArmLists}

InitMatches == Start({"match", "x", "|", "->", "2"}, MatchTexts)

SpecMatches == InitMatches /\ [][Next]_vars

AlternativeOf(a) ==
  Node("alternative",
       <<Leaf(Quote("|"), "|"), With("pattern", AtomOf(a[2])),
         Leaf(Quote("->"), "->"), With("body", AtomOf(a[4]))>>)

MatchOf(as) ==
  Node("match",
       <<Leaf(Quote("match"), "match"), With("subject", Variable("x"))>>
         \o [i \in 1..Len(as) |-> With("branch", AlternativeOf(as[i]))])

\* C15: a match has one or more alternatives, kept as its branches in the
\* order of the text, and a match with no alternative is not accepted.
C15_MatchAlternatives ==
  /\ \A as \in ArmLists :
       /\ Len(as) >= 1 /\ Rejected => ~Refused(MatchText(as))
       /\ Len(as) >= 1 /\ Accepted /\ input = MatchText(as) => Statement = MatchOf(as)
  /\ Accepted => input # MatchText(<<>>)
  /\ Rejected /\ input = MatchText(<<>>) => token = EndOfInput

\* A match with two different alternatives is accepted with two branches.
C15_Witness ==
  /\ Accepted
  /\ input = <<"match", "x", "|", "x", "->", "2", "|", "2", "->", "x">>
  /\ Len(Statement.kids) = 4
  /\ Statement.kids[3].kids[2] = With("pattern", Variable("x"))
  /\ Statement.kids[4].kids[2] = With("pattern", Number)

(***************************************************************************)
(* Categories.                                                             *)
(***************************************************************************)
\* The productions of the rule named c.
RuleOf(c) == rules[CHOOSE k \in 1..Len(rules) : rules[k][1].lhs = c]

\* The members of the choice that defines the supertype c.
ChoiceList(c) == {RuleOf(c)[i].rhs[1].sym : i \in 1..Len(RuleOf(c))}

\* The variants that some supertype lists.
Listed == (UNION {ChoiceList(c) : c \in supertypes}) \ supertypes

CategoriesOf(v) == {c \in supertypes : v \in ChoiceList(c)}

\* The supertypes that list a supertype, as pairs <<outer, inner>>.
Nesting == {cd \in supertypes \X supertypes : cd[2] \in ChoiceList(cd[1])}

\* The categories of every listed variant.
Memberships == [v \in Listed |-> CategoriesOf(v)]

\* The nodes of an accepted match that stand where a category is expected:
\* the match itself, its subject and the patterns of its alternatives.
Subject == Statement.kids[2]

PatternOf(i) == Statement.kids[2 + i].kids[2]

\* C16, as the grammar has it: the five categories are nested, statement
\* lists type_expr, type_expr lists expr and expr lists atom, and pattern
\* stands apart; every listed variant is in one list only, except variable
\* and literal, which both atom and pattern list.  So in an accepted match
\* the match node is listed by expr only, and the subject and the patterns,
\* variables and literals, are listed by atom and by pattern.
C16_CategoriesNested ==
  \A as \in ArmLists :
    /\ Len(as) >= 1 /\ Rejected => ~Refused(MatchText(as))
    /\ Len(as) >= 1 /\ Accepted /\ input = MatchText(as) =>
         /\ Nesting = {<<"statement", "type_expr">>, <<"type_expr", "expr">>,
                       <<"expr", "atom">>}
         /\ \A v \in Listed :
              Memberships[v] = IF v \in {"variable", "literal"}
                               THEN {"atom", "pattern"}
                               ELSE {CHOOSE c \in supertypes : v \in ChoiceList(c)}
         /\ Memberships[Statement.kind] = {"expr"}
         /\ Memberships[Subject.kind] = {"atom", "pattern"}
         /\ \A i \in 1..Len(as) : Memberships[PatternOf(i).kind] = {"atom", "pattern"}

\* The variable x stands as the subject of a match, where an expr is
\* expected, and as the pattern of its alternative.
C16_Witness ==
  /\ Accepted
  /\ input = <<"match", "x", "|", "x", "->", "2">>
  /\ Subject = With("subject", Variable("x"))
  /\ PatternOf(1) = With("pattern", Variable("x"))
  /\ Memberships["variable"] = {"atom", "pattern"}

\* C16, as stated: every variant is in the choice list of exactly one
\* category and no category is a member of another, so that a node is listed
\* by the category expected where it stands and by no other.
C16_CategoriesDisjoint ==
  \A as \in ArmLists :
    Len(as) >= 1 /\ Accepted /\ input = MatchText(as) =>
      /\ Nesting = {}
      /\ \A v \in Listed : Cardinality(Memberships[v]) = 1
      /\ Memberships[Statement.kind] = {"statement"}
      /\ Memberships[Subject.kind] = {"expr"}
      /\ \A i \in 1..Len(as) : Memberships[PatternOf(i).kind] = {"pattern"}

(***************************************************************************)
(* The highlighting query.                                                 *)
(***************************************************************************)
\* The node types that the patterns of the query name.
QueryNodes ==
  {"tagged", "pattern_tagged", "application", "variable", "identifier", "letdec",
   "param", "typed_param", "pi", "mu", "alternative", "pattern",
   "pattern_variable", "string", "number", "label", "comment", "import", "exports"}

\* The fields that the patterns of the query name, with the node that has them.
QueryFields ==
  {<<"tagged", "tag">>, <<"pattern_tagged", "tag">>, <<"application", "function">>,
   <<"letdec", "name">>, <<"pi", "domain">>, <<"pi", "codomain">>,
   <<"mu", "name">>, <<"alternative", "pattern">>}

\* The literal tokens that the query names; mu stands for the Greek letter.
QueryLiterals ==
  {"let", "using", "foreign", "export", "import", "match", "return", "reset",
   "shift", "resume", "as", "Type", "Unit", "Row", "true", "false", "!", "mu",
   "\\", "=>", "->", "+", "-", "*", "/", "%", "==", "!=", "<", ">", "<=", ">=",
   "&&", "||", "|>", "<|", "<>", "++", ".", ",", ";", ":", "|", "@", "{", "}",
   "[", "]", "(", ")", "[|", "|]"}

\* The steps of all the productions of the grammar.
ProductionSteps ==
  UNION {{p.rhs[j] : j \in 1..Len(p.rhs)} :
           p \in UNION {{rules[k][i] : i \in 1..Len(rules[k])} : k \in 1..Len(rules)}}

\* The node types of the grammar: its rules, and the symbols of their
\* productions under the alias they are given there, and the extras.
NodeTypes ==
  {rules[k][1].lhs : k \in 1..Len(rules)} \cup
  {IF s.alias # "" THEN s.alias ELSE s.sym : s \in ProductionSteps} \cup extras

\* The fields of the productions of the rule r.
FieldsOf(r) ==
  UNION {{RuleOf(r)[i].rhs[j].field : j \in 1..Len(RuleOf(r)[i].rhs)} :
           i \in 1..Len(RuleOf(r))}

\* What the query names and the grammar does not have.
Unproducible ==
  {q \in QueryNodes \cup {Quote(l) : l \in QueryLiterals} : q \notin NodeTypes}

RECURSIVE KindsIn(_)
KindsIn(n) == {n.kind} \cup UNION {KindsIn(n.kids[i]) : i \in 1..Len(n.kids)}

TypedLambda == <<"\\", "(", "x", ":", "2", ")", "->", "x">>

VariablePattern == <<"match", "x", "|", "y", "->", "2">>

Conjunction == <<"x", "&&", "y">>

TaggedPattern == <<"match", "x", "|", "#", "x", "y", "->", "2">>

ImplicitArgument == <<"x", "@", "y">>

QueryTexts ==
  {TypedLambda, VariablePattern, Conjunction, TaggedPattern, ImplicitArgument,
   <<"#", "x", "2">>, <<"let", "x", "=", "2">>, <<"Type">>, <<"x", "!">>,
   <<"\\", "x", "=>", "x">>}

InitQuery == Start({"\\", "(", ")", "x", ":", "2", "->", "&&", "@"}, QueryTexts)

SpecQuery == InitQuery /\ [][Next]_vars

\* C17: every node type, field and literal token that the highlighting query
\* names is one that the grammar produces, so that the tree of a lambda with a
\* typed parameter has the typed_param node, the tree of a match on a variable
\* the pattern_variable node and the tree of a conjunction the "&&" token
\* that the query looks for.
C17_QueryProducible ==
  Accepted /\ input \in QueryTexts =>
    /\ Unproducible = {}
    /\ \A nf \in QueryFields : nf[2] \in FieldsOf(nf[1])
    /\ input = TypedLambda => "typed_param" \in KindsIn(Tree)
    /\ input = VariablePattern => "pattern_variable" \in KindsIn(Tree)
    /\ input = Conjunction => Quote("&&") \in KindsIn(Tree)

\* The typed parameter of a lambda is a param node around a typing node.
C17_Witness ==
  /\ Accepted
  /\ input = TypedLambda
  /\ "typed_param" \in Unproducible
  /\ "typed_param" \notin KindsIn(Tree)
  /\ {"param", "typing"} \subseteq KindsIn(Tree)

\* What the query names and does not find: two node types of an earlier
\* grammar and the tokens that the grammar renames.  No accepted tree has one
\* of them; the rest of what the query names is there.
QueryAsBuilt ==
  Accepted =>
    /\ Unproducible =
         {"typed_param", "pattern_variable"} \cup
         {Quote(l) : l \in {"Type", "Unit", "Row", "!", "=>", "&&", "||"}}
    /\ KindsIn(Tree) \cap Unproducible = {}
    /\ \A nf \in QueryFields : nf[2] \in FieldsOf(nf[1])
    /\ input = TaggedPattern => {"pattern_tagged", "alternative"} \subseteq KindsIn(Tree)
    /\ input = ImplicitArgument => {"application", Quote("@")} \subseteq KindsIn(Tree)
    /\ input = VariablePattern => "variable" \in KindsIn(Tree)
    /\ input = Conjunction => "and" \in KindsIn(Tree)

(***************************************************************************)
(* Unary operators.                                                        *)
(***************************************************************************)
Signs == {"-", "+"}

UnaryAtoms == {"x", "y", "2"}

\* A sign, an atom f and an atom a.
UnaryTexts == {<<o, f, a>> : o \in Signs, f \in UnaryAtoms, a \in UnaryAtoms}

InitUnary == Start(Signs \cup UnaryAtoms \cup {"*"}, UnaryTexts)

SpecUnary == InitUnary /\ [][Next]_vars

Unary(o, e) == Node("unary", <<With("operator", Leaf(Quote(o), o)), With("operand", e)>>)

\* C19: a unary prefix operator binds tighter than application: for atoms f
\* and a, the text o f a with o one of - and + is accepted as the application
\* of the unary expression o f to the argument a.
C19_UnaryAboveApplication ==
  /\ Rejected => \A t \in UnaryTexts : ~Refused(t)
  /\ Accepted /\ input \in UnaryTexts =>
       /\ Statement.kind = "application"
       /\ Statement.kids[1] = With("function", Unary(input[1], AtomOf(input[2])))
       /\ Statement.kids[2] = With("argument", Explicit(AtomOf(input[3])))

\* - x y is accepted as the negation of the application of x to y.
C19_Witness ==
  /\ Accepted
  /\ input = <<"-", "x", "y">>
  /\ Statement =
       Unary("-", Application(Variable("x"), <<With("argument", Explicit(Variable("y")))>>))

\* What the parser does with a sign before an application: the sign has the
\* whole application f a as its operand, and none of the texts is rejected.  A
\* sign still binds tighter than a binary operator: o f * a is (o f) * a.
UnaryAsBuilt ==
  /\ Rejected => \A t \in UnaryTexts : ~Refused(t)
  /\ Accepted /\ input \in UnaryTexts =>
       Statement =
         Unary(input[1],
               Application(AtomOf(input[2]),
                           <<With("argument", Explicit(AtomOf(input[3])))>>))
  /\ Accepted /\ Len(input) = 4 /\ input[1] \in Signs /\ input[3] = "*"
       /\ input[2] \in UnaryAtoms /\ input[4] \in UnaryAtoms =>
       Statement = Operation(Unary(input[1], AtomOf(input[2])), "*", AtomOf(input[4]))

(***************************************************************************)
(* Bracket patterns.                                                       *)
(***************************************************************************)
MaxItems == 2

\* The items of a bracket pattern: a pattern, or a key and a pattern.
PatternItems == {<<"y">>, <<"2">>, <<"y", ":", "2">>}

Keyed(item) == Len(item) = 3

ItemLists == UNION {[1..n -> PatternItems] : n \in 0..MaxItems}

PatternTails == {<<>>, <<"|", "y">>}

RECURSIVE Separated(_)
Separated(items) ==
  IF items = <<>> THEN <<>>
  ELSE IF Len(items) = 1 THEN items[1]
  ELSE items[1] \o <<",">> \o Separated(Tail(items))

\* The match of x on the bracket pattern with these items and this tail.
BracketPattern(items, tl) ==
  <<"match", "x", "|", "[">> \o Separated(items) \o tl \o <<"]", "->", "2">>

BracketPatternTexts == {BracketPattern(is, tl) : is \in ItemLists, tl \in PatternTails}

InitBracketPatterns ==
  Start({"match", "x", "|", "[", "]", ":", ",", "->", "y"}, BracketPatternTexts)

SpecBracketPatterns == InitBracketPatterns /\ [][Next]_vars

\* The children of the node n under the field f, the commas left out.
Items(n, f) == SelectSeq(n.kids, LAMBDA k : k.field = f /\ k.kind # Quote(","))

PatternKeyValue(item) ==
  Node("pattern_key_value",
       <<With("key", Leaf("identifier", item[1])), Leaf(Quote(":"), ":"),
         With("pattern", AtomOf(item[3]))>>)

TailOf(tl) ==
  IF tl = <<>> THEN <<>>
  ELSE <<With("tail", Leaf(Quote("|"), "|")), With("tail", Leaf("identifier", tl[2]))>>

\* The pattern of the alternative is the list of the items.
IsPatternList(is, tl) ==
  /\ PatternOf(1).kind = "pattern_list"
  /\ Items(PatternOf(1), "element") = [i \in 1..Len(is) |-> With("element", AtomOf(is[i][1]))]
  /\ Items(PatternOf(1), "tail") = TailOf(tl)

\* The pattern of the alternative is the row of the items.
IsPatternRow(is, tl) ==
  /\ PatternOf(1).kind = "pattern_row"
  /\ Items(PatternOf(1), "field") = [i \in 1..Len(is) |-> With("field", PatternKeyValue(is[i]))]
  /\ Items(PatternOf(1), "tail") = TailOf(tl)

AllKeyed(is) == \A i \in 1..Len(is) : Keyed(is[i])

NoneKeyed(is) == \A i \in 1..Len(is) : ~Keyed(is[i])

\* C20: a bracket pattern has one variant, selected by its first item: a row
\* when the first item is a key and a pattern, and a list otherwise, with any
\* number of items, none included, and with or without a tail; a bracket that
\* mixes the two kinds of item is rejected.
C20_VariantByFirstItem ==
  \A is \in ItemLists, tl \in PatternTails :
    /\ Rejected /\ (AllKeyed(is) \/ NoneKeyed(is)) => ~Refused(BracketPattern(is, tl))
    /\ Accepted /\ input = BracketPattern(is, tl) =>
         /\ AllKeyed(is) \/ NoneKeyed(is)
         /\ IF is # <<>> /\ Keyed(is[1]) THEN IsPatternRow(is, tl) ELSE IsPatternList(is, tl)

\* The bracket with a tail and no item is accepted as a row.
C20_Witness ==
  /\ Accepted
  /\ input = BracketPattern(<<>>, <<"|", "y">>)
  /\ IsPatternRow(<<>>, <<"|", "y">>)

\* The empty bracket is read as a row.
EmptyPatternRow ==
  /\ Accepted
  /\ input = BracketPattern(<<>>, <<>>)
  /\ IsPatternRow(<<>>, <<>>)

\* The empty bracket is read as a list.
EmptyPatternList ==
  /\ Accepted
  /\ input = BracketPattern(<<>>, <<>>)
  /\ IsPatternList(<<>>, <<>>)

\* What the parser does with a bracket pattern: with one or more items the
\* first item selects the variant and a mixed bracket is rejected; without
\* items the bracket with a tail is a row, and the empty bracket is read as a
\* list or as a row.
BracketPatternsAsBuilt ==
  \A is \in ItemLists, tl \in PatternTails :
    /\ Rejected /\ (AllKeyed(is) \/ NoneKeyed(is)) => ~Refused(BracketPattern(is, tl))
    /\ Accepted /\ input = BracketPattern(is, tl) =>
         /\ AllKeyed(is) \/ NoneKeyed(is)
         /\ IF is = <<>>
            THEN IF tl = <<>> THEN IsPatternRow(is, tl) \/ IsPatternList(is, tl)
                 ELSE IsPatternRow(is, tl)
            ELSE IF Keyed(is[1]) THEN IsPatternRow(is, tl) ELSE IsPatternList(is, tl)

(***************************************************************************)
(* Determinism.                                                            *)
(***************************************************************************)
\* The texts on which a declared conflict is met, among others of their kind.
ConflictTexts ==
  {<<"{", "}">>, <<"{", "x", "}">>, <<"{", "x", ":", "x", "}">>, <<"{", "x", ";", "}">>}
  \cup {BracketPattern(is, <<>>) : is \in {<<>>, << <<"y">> >>, << <<"y", ":", "2">> >>}}

InitConflicts == Start({"{", "}", "[", "]", "x", ";", ":"}, ConflictTexts)

SpecConflicts == InitConflicts /\ [][Next]_vars

\* The rules that the declared conflicts name.
ConflictKinds == UNION conflicts

\* The parser can go on with a node of kind k on top of its stack.
CanBuild(k) ==
  ENABLED (/\ Next
           /\ stack'[Len(stack')].nodes # <<>>
           /\ stack'[Len(stack')].nodes[1].kind = k)

\* Two readings compete: the same text is reduced to a node of one rule of a
\* declared conflict or to a node of another.
Competing == {kk \in ConflictKinds \X ConflictKinds : kk[1] # kk[2] /\ CanBuild(kk[1]) /\ CanBuild(kk[2])}

\* C18: parsing is deterministic: with the precedences, the associativities
\* and the struct/block and pattern_list/pattern_row conflicts resolved, a
\* text has at most one tree, so at no point of a parse do two readings of
\* the same text compete.
C18_Deterministic == Parsing /\ token # "" => Competing = {}

\* At the end of { } the parser can build a struct and can build a block.
C18_Witness ==
  /\ Parsing
  /\ input = <<"{", "}">>
  /\ token = EndOfInput
  /\ <<"struct", "block">> \in Competing

\* The empty bracket pattern can be built as a list and as a row.
EmptyBracketCompeting ==
  /\ Parsing
  /\ input = <<"match", "x", "|", "[", "]", "->">>
  /\ <<"pattern_list", "pattern_row">> \in Competing

\* Where readings compete: only when the empty braces or the empty brackets
\* of a pattern are reduced, between struct and block and between
\* pattern_list and pattern_row; each of the readings is then carried to an
\* accepted tree.
ConflictsAsBuilt ==
  /\ Parsing /\ token # "" /\ Competing # {} =>
       /\ Len(stack) >= 3
       /\ LET open  == stack[Len(stack) - 1].nodes[1].kind
              close == stack[Len(stack)].nodes[1].kind
          IN  \/ /\ open = Quote("{") /\ close = Quote("}")
                 /\ Competing = {<<"struct", "block">>, <<"block", "struct">>}
              \/ /\ open = Quote("[") /\ close = Quote("]")
                 /\ Competing = {<<"pattern_list", "pattern_row">>,
                                 <<"pattern_row", "pattern_list">>}
  /\ Accepted /\ input = <<"{", "}">> => Statement.kind \in {"struct", "block"}
  /\ Rejected => \A t \in ConflictTexts : ~Refused(t)

=============================================================================
